---- MODULE Spec2Model ----
(***************************************************************************)
(* Model of desktop-client/src/currency.rs: the USD value type, a signed   *)
(* amount of whole cents held in one arbitrary-precision Integer, with its *)
(* constructor, accessors, arithmetic and Display.                         *)
(***************************************************************************)
EXTENDS Integers, Sequences, FiniteSets

VARIABLES
    acc,    \* the USD bound as left operand / result (c1, c3 of main.rs and the tests)
    arg,    \* the USD bound as right operand (c2 of main.rs and the tests)
    last,   \* the last constructor or operator call, with its inputs
    ret,    \* the last accessor or Display call, with the value it returned
    big     \* state of the fixed-width view of USD::new (see the Big section)

vars == <<acc, arg, last, ret, big>>

(***************************************************************************)
(* Bounds of the model.                                                    *)
(***************************************************************************)
MaxDollars == 1        \* Spec: dollars argument of new is in -MaxDollars..MaxDollars
MaxFrom == 2           \* Spec: from(Integer) argument is in -MaxFrom..MaxFrom
MaxTotal == 150        \* Spec: a binary operator runs while |result| <= MaxTotal
MaxPairDollars == 2    \* SpecPair: dollars argument of new
MaxWideDollars == 9    \* SpecValue: dollars argument of new
MaxWideCents == 215    \* SpecValue: cents argument of new is in 0..MaxWideCents
MaxWideFrom == 310     \* SpecValue: from(Integer) argument
MaxBigDelta == 1       \* SpecBig: distance of an input from an end of its 64-bit range

(***************************************************************************)
(* Integer helpers: rug::Integer semantics.                                *)
(***************************************************************************)
abs(n) == IF n < 0 THEN 0 - n ELSE n

\* Integer / i32: division truncating toward zero.
TruncDiv(n, m) == IF n < 0 THEN 0 - ((0 - n) \div m) ELSE n \div m

\* Integer::mod_u: remainder of Euclidean division, always zero or positive.
mod_u(n, m) == n % m

(***************************************************************************)
(* impl From<Integer> for USD                                              *)
(***************************************************************************)
from(total_cents) == [total_cents |-> total_cents]

(***************************************************************************)
(* USD::new(dollars: i64, cents: usize)                                    *)
(***************************************************************************)
\* Variants of new with one step changed: the carry not multiplied by the
\* sign, zero dollars taken as negative, the remainder not multiplied by
\* the sign.
new_OppositeCarry(dollars, cents) ==
    LET carry0 == cents \div 100
        remaining_cents == cents % 100
        sign == IF dollars < 0 THEN -1 ELSE 1
        d2 == dollars + carry0
        cents2 == sign * remaining_cents
    IN  from(d2 * 100 + cents2)

new_SignOfZero(dollars, cents) ==
    LET carry0 == cents \div 100
        remaining_cents == cents % 100
        sign == IF dollars <= 0 THEN -1 ELSE 1
        carry == carry0 * sign
        d2 == dollars + carry
        cents2 == sign * remaining_cents
    IN  from(d2 * 100 + cents2)

new_TowardZero(dollars, cents) ==
    LET carry0 == cents \div 100
        remaining_cents == cents % 100
        sign == IF dollars < 0 THEN -1 ELSE 1
        carry == carry0 * sign
        d2 == dollars + carry
    IN  from(d2 * 100 + remaining_cents)

new(dollars, cents) ==
    LET carry0 == cents \div 100
        remaining_cents == cents % 100
        sign == IF dollars < 0 THEN -1 ELSE 1
        carry == carry0 * sign
        d2 == dollars + carry
        cents2 == sign * remaining_cents
    IN  from(d2 * 100 + cents2)

(***************************************************************************)
(* Accessors                                                               *)
(***************************************************************************)
\* dollars with flooring division in place of truncating division.
dollars_Floor(self) == self.total_cents \div 100

dollars(self) == TruncDiv(self.total_cents, 100)

\* cents without the adjustment for negative totals.
cents_Euclid(self) == mod_u(self.total_cents, 100)

cents(self) ==
    LET euclid_remainder == mod_u(self.total_cents, 100)
    IN  IF self.total_cents < 0 /\ euclid_remainder # 0
        THEN 100 - euclid_remainder
        ELSE euclid_remainder

(***************************************************************************)
(* Arithmetic                                                              *)
(***************************************************************************)
_add(self, other) ==
    LET result == self.total_cents + other.total_cents
    IN  from(result)

\* _sub with its operands exchanged.
_sub_Swapped(self, other) ==
    LET result == other.total_cents - self.total_cents
    IN  from(result)

_sub(self, other) ==
    LET result == self.total_cents - other.total_cents
    IN  from(result)

\* The four Add impls: (&USD, &USD), (&USD, USD), (USD, &USD), (USD, USD).
add_ref_ref(self, other) == _add(self, other)
add_ref_val(self, other) == _add(self, other)
\* The (USD, &USD) impl of Add calling _sub.
add_val_ref_Sub(self, other) == _sub(self, other)
add_val_ref(self, other) == _add(self, other)
add_val_val(self, other) == _add(self, other)

\* The four Sub impls, in the same order.
sub_ref_ref(self, other) == _sub(self, other)
sub_ref_val(self, other) == _sub(self, other)
sub_val_ref(self, other) == _sub(self, other)
sub_val_val(self, other) == _sub(self, other)

Shapes == {"ref_ref", "ref_val", "val_ref", "val_val"}

add(shape, a, b) ==
    CASE shape = "ref_ref" -> add_ref_ref(a, b)
      [] shape = "ref_val" -> add_ref_val(a, b)
      [] shape = "val_ref" -> add_val_ref(a, b)
      [] shape = "val_val" -> add_val_val(a, b)

sub(shape, a, b) ==
    CASE shape = "ref_ref" -> sub_ref_ref(a, b)
      [] shape = "ref_val" -> sub_ref_val(a, b)
      [] shape = "val_ref" -> sub_val_ref(a, b)
      [] shape = "val_val" -> sub_val_val(a, b)

(***************************************************************************)
(* Display.  Text is a sequence of one-character strings.                  *)
(***************************************************************************)
DigitChars == <<"0", "1", "2", "3", "4", "5", "6", "7", "8", "9">>

\* Display of a non-negative Integer / u32: decimal, no leading zeros.
RECURSIVE ToDecimal(_)
ToDecimal(n) ==
    IF n < 10 THEN <<DigitChars[n + 1]>>
    ELSE ToDecimal(n \div 10) \o <<DigitChars[(n % 10) + 1]>>

\* The {:0w} format flag: pad with zeros on the left up to width w.
RECURSIVE ZeroPad(_, _)
ZeroPad(s, w) == IF Len(s) < w THEN ZeroPad(<<"0">> \o s, w) ELSE s

\* fmt with {} in place of {:02} for the cents.
fmt_NoPad(self) ==
    LET sign == IF dollars(self) < 0 THEN <<"-">> ELSE <<>>
    IN  sign \o <<"$">> \o ToDecimal(abs(dollars(self))) \o <<".">>
             \o ToDecimal(cents(self))

fmt(self) ==
    LET sign == IF dollars(self) < 0 THEN <<"-">> ELSE <<>>
    IN  sign \o <<"$">> \o ToDecimal(abs(dollars(self))) \o <<".">>
             \o ZeroPad(ToDecimal(cents(self)), 2)

(***************************************************************************)
(* The 64-bit view.  USD::new takes an i64 and a usize and works in i64     *)
(* until it widens to Integer, so at the ends of the 64-bit range the      *)
(* widths of its intermediate steps matter.  Amounts of that size are held *)
(* as sign and magnitude, the magnitude a sequence of base-100 limbs,      *)
(* least significant first, with no most-significant zero limb; zero is    *)
(* the empty magnitude, never negative.                                    *)
(***************************************************************************)
RECURSIVE MagNorm(_)
MagNorm(m) ==
    IF m = <<>> THEN <<>>
    ELSE IF m[Len(m)] = 0 THEN MagNorm(SubSeq(m, 1, Len(m) - 1))
    ELSE m

Big(neg, mag) ==
    LET m == MagNorm(mag) IN [neg |-> neg /\ m # <<>>, mag |-> m]

RECURSIVE MagOf(_)
MagOf(n) == IF n = 0 THEN <<>> ELSE <<n % 100>> \o MagOf(n \div 100)

\* Integer::from of a machine integer small enough to be written in the model.
BigOf(n) == Big(n < 0, MagOf(abs(n)))

\* -1, 0 or 1 as magnitude a is below, equal to or above magnitude b.
RECURSIVE MagCmpAt(_, _, _)
MagCmpAt(a, b, i) ==
    IF i = 0 THEN 0
    ELSE IF a[i] < b[i] THEN -1
    ELSE IF a[i] > b[i] THEN 1
    ELSE MagCmpAt(a, b, i - 1)

MagCmp(a, b) ==
    IF Len(a) < Len(b) THEN -1
    ELSE IF Len(a) > Len(b) THEN 1
    ELSE MagCmpAt(a, b, Len(a))

Limb(m) == IF m = <<>> THEN 0 ELSE Head(m)

Rest(m) == IF m = <<>> THEN <<>> ELSE Tail(m)

RECURSIVE MagAdd(_, _, _)
MagAdd(a, b, carry) ==
    IF a = <<>> /\ b = <<>> THEN (IF carry = 0 THEN <<>> ELSE <<carry>>)
    ELSE LET t == Limb(a) + Limb(b) + carry
         IN  <<t % 100>> \o MagAdd(Rest(a), Rest(b), t \div 100)

\* a - b for magnitudes with a >= b
RECURSIVE MagSub(_, _, _)
MagSub(a, b, borrow) ==
    IF a = <<>> THEN <<>>
    ELSE LET t == Limb(a) - Limb(b) - borrow
         IN  <<t % 100>> \o MagSub(Rest(a), Rest(b), IF t < 0 THEN 1 ELSE 0)

BigNeg(x) == Big(~x.neg, x.mag)

\* Integer + Integer
BigAdd(x, y) ==
    IF x.neg = y.neg THEN Big(x.neg, MagAdd(x.mag, y.mag, 0))
    ELSE IF MagCmp(x.mag, y.mag) >= 0 THEN Big(x.neg, MagSub(x.mag, y.mag, 0))
    ELSE Big(y.neg, MagSub(y.mag, x.mag, 0))

\* Integer - Integer
BigSub(x, y) == BigAdd(x, BigNeg(y))

\* x <= y
BigLeq(x, y) ==
    IF x.neg /\ ~y.neg THEN TRUE
    ELSE IF ~x.neg /\ y.neg THEN FALSE
    ELSE IF x.neg THEN MagCmp(x.mag, y.mag) >= 0
    ELSE MagCmp(x.mag, y.mag) <= 0

\* Integer * 100
BigTimes100(x) == Big(x.neg, <<0>> \o x.mag)

\* Integer / 100, truncating toward zero
BigTruncDiv100(x) == Big(x.neg, Rest(x.mag))

\* Integer::mod_u(100): remainder of Euclidean division, zero or positive
big_mod_u100(x) ==
    IF x.neg /\ Limb(x.mag) # 0 THEN 100 - Limb(x.mag) ELSE Limb(x.mag)

\* i64::MAX = 9223372036854775807, i64::MIN = -9223372036854775808,
\* usize::MAX = 18446744073709551615 (64-bit target)
I64_MAX == [neg |-> FALSE, mag |-> <<7, 58, 77, 54, 68, 3, 72, 33, 22, 9>>]
I64_MIN == [neg |-> TRUE, mag |-> <<8, 58, 77, 54, 68, 3, 72, 33, 22, 9>>]
USIZE_MAX == [neg |-> FALSE, mag |-> <<15, 16, 55, 9, 37, 7, 44, 67, 44, 18>>]

InI64(x) == BigLeq(I64_MIN, x) /\ BigLeq(x, I64_MAX)

\* A step of USD::new that can fail: val is the exact result, fail says why
\* the program stops there ("none" when it does not).  An i64 operation that
\* leaves the range panics in a debug build and wraps in a release build; the
\* model marks it "overflow" in both.
Step(val, fail) == [val |-> val, fail |-> fail]

\* usize -> i64 by try_into().unwrap()
try_into_i64(x) == Step(x, IF InI64(x) THEN "none" ELSE "try_into")

\* i64 * i64 where the right factor is the sign, 1 or -1
i64_mul_sign(x, sign) ==
    LET r == IF sign < 0 THEN BigNeg(x) ELSE x
    IN  Step(r, IF InI64(r) THEN "none" ELSE "overflow")

\* i64 + i64 and i64 * 100, the steps of a constructor that stays in i64
i64_add(x, y) ==
    LET r == BigAdd(x, y) IN Step(r, IF InI64(r) THEN "none" ELSE "overflow")

i64_times100(x) ==
    LET r == BigTimes100(x) IN Step(r, IF InI64(r) THEN "none" ELSE "overflow")

FirstFail(fails) ==
    IF \A i \in 1..Len(fails) : fails[i] = "none" THEN "none"
    ELSE LET i == CHOOSE k \in 1..Len(fails) :
                    /\ fails[k] # "none"
                    /\ \A j \in 1..(k - 1) : fails[j] = "none"
         IN  fails[i]

\* A constructor that keeps the dollars in i64 instead of widening them.
big_new_FixedWidth(d, c) ==
    LET carry_u == Big(FALSE, Rest(c.mag))
        remaining_cents == try_into_i64(BigOf(Limb(c.mag)))
        sign == IF d.neg THEN -1 ELSE 1
        carry_i == try_into_i64(carry_u)
        carry == i64_mul_sign(carry_i.val, sign)
        d2 == i64_add(d, carry.val)
        cents2 == i64_mul_sign(remaining_cents.val, sign)
        d3 == i64_times100(d2.val)
        total == i64_add(d3.val, cents2.val)
    IN  [usd |-> from(total.val),
         fail |-> FirstFail(<<remaining_cents.fail, carry_i.fail, carry.fail,
                              d2.fail, cents2.fail, d3.fail, total.fail>>)]

\* USD::new with the width of every step: usize division and remainder,
\* the two try_into().unwrap() conversions, the two i64 products with the
\* sign, and from Integer::from(dollars) on, Integer arithmetic.
big_new(d, c) ==
    LET carry_u == Big(FALSE, Rest(c.mag))
        remaining_cents == try_into_i64(BigOf(Limb(c.mag)))
        sign == IF d.neg THEN -1 ELSE 1
        carry_i == try_into_i64(carry_u)
        carry == i64_mul_sign(carry_i.val, sign)
        d2 == BigAdd(d, carry.val)
        cents2 == i64_mul_sign(remaining_cents.val, sign)
    IN  [usd |-> from(BigAdd(BigTimes100(d2), cents2.val)),
         fail |-> FirstFail(<<remaining_cents.fail, carry_i.fail, carry.fail,
                              cents2.fail>>)]

big_dollars(self) == BigTruncDiv100(self.total_cents)

big_cents(self) ==
    LET euclid_remainder == big_mod_u100(self.total_cents)
    IN  IF self.total_cents.neg /\ euclid_remainder # 0
        THEN 100 - euclid_remainder
        ELSE euclid_remainder

big_add(self, other) == from(BigAdd(self.total_cents, other.total_cents))

big_sub(self, other) == from(BigSub(self.total_cents, other.total_cents))

(***************************************************************************)
(* Inputs.                                                                 *)
(***************************************************************************)
\* cents arguments of Spec: none, a few, almost a dollar.
CentInputs == {0, 4, 98}

NewInputs == {<<d, c>> : d \in (0 - MaxDollars)..MaxDollars, c \in CentInputs}

FromInputs == (0 - MaxFrom)..MaxFrom

\* The (dollars, cents) literals of main.rs and of the arithmetic tests.
PairTestInputs ==
    { <<15, 31>>, <<500, 32>>, <<31, 99>>, <<15, 95>>, <<-22, 99>>,
      <<15, 29>>, <<14, 31>>, <<9, 83>>, <<-5, 17>> }

PairCentInputs == {0, 4, 50, 98, 115}

PairInputs ==
    {<<d, c>> : d \in (0 - MaxPairDollars)..MaxPairDollars, c \in PairCentInputs}
        \cup PairTestInputs

\* The (dollars, cents) literals of the creation and display tests.
WideTestInputs ==
    { <<22, 75>>, <<-8, 96>>, <<1, 1015>>, <<-1, 115>>, <<0, 0>>, <<15, 30>>,
      <<3705, 7>>, <<-10513012, 3>>, <<51, 82>>, <<-300, 16>> }

WideNewInputs ==
    {<<d, c>> : d \in (0 - MaxWideDollars)..MaxWideDollars, c \in 0..MaxWideCents}
        \cup WideTestInputs

\* 25573 and -25573 are the literals of the conversion tests.
WideFromInputs == ((0 - MaxWideFrom)..MaxWideFrom) \cup {25573, -25573}

Slots == {"acc", "arg"}

NoRet == [op |-> "none"]

value(slot) == IF slot = "acc" THEN acc ELSE arg

(***************************************************************************)
(* Actions: one per public operation of USD.                               *)
(***************************************************************************)
\* let <slot> = USD::new(d, c);
New(slot, d, c) ==
    /\ acc' = IF slot = "acc" THEN new(d, c) ELSE acc
    /\ arg' = IF slot = "arg" THEN new(d, c) ELSE arg
    /\ last' = [op |-> "new", slot |-> slot, d |-> d, c |-> c]
    /\ ret' = NoRet
    /\ UNCHANGED big

\* let <slot> = USD::from(Integer::from(n));
From(slot, n) ==
    /\ acc' = IF slot = "acc" THEN from(n) ELSE acc
    /\ arg' = IF slot = "arg" THEN from(n) ELSE arg
    /\ last' = [op |-> "from", slot |-> slot, n |-> n]
    /\ ret' = NoRet
    /\ UNCHANGED big

\* let acc = acc + arg;   in one of the four call shapes
Add(shape) ==
    /\ acc' = add(shape, acc, arg)
    /\ last' = [op |-> "add", shape |-> shape, lhs |-> acc]
    /\ ret' = NoRet
    /\ UNCHANGED <<arg, big>>

\* let acc = acc - arg;   in one of the four call shapes
Sub(shape) ==
    /\ acc' = sub(shape, acc, arg)
    /\ last' = [op |-> "sub", shape |-> shape, lhs |-> acc]
    /\ ret' = NoRet
    /\ UNCHANGED <<arg, big>>

\* <slot>.dollars()
Dollars(slot) ==
    /\ ret' = [op |-> "dollars", of |-> value(slot), val |-> dollars(value(slot))]
    /\ UNCHANGED <<acc, arg, last, big>>

\* <slot>.cents()
Cents(slot) ==
    /\ ret' = [op |-> "cents", of |-> value(slot), val |-> cents(value(slot))]
    /\ UNCHANGED <<acc, arg, last, big>>

\* <slot>.to_string()
Fmt(slot) ==
    /\ ret' = [op |-> "fmt", of |-> value(slot), val |-> fmt(value(slot))]
    /\ UNCHANGED <<acc, arg, last, big>>

\* The 64-bit view before any call: both bindings hold the zero amount.
BigInit ==
    [acc |-> from(BigOf(0)), arg |-> from(BigOf(0)), last |-> [op |-> "init"],
     ret |-> NoRet, fail |-> "none"]

Init ==
    /\ acc = new(0, 0)
    /\ arg = new(0, 0)
    /\ last = [op |-> "init"]
    /\ ret = NoRet
    /\ big = BigInit

\* Spec: any sequence of constructions, binary operators and accessor calls
\* over two bindings, on a small grid of inputs; a binary operator runs while
\* the amounts stay within MaxTotal cents.
InRange(total) == abs(total) <= MaxTotal

Next ==
    \/ \E slot \in Slots, in \in NewInputs : New(slot, in[1], in[2])
    \/ \E slot \in Slots, n \in FromInputs : From(slot, n)
    \/ \E shape \in Shapes :
          InRange(acc.total_cents + arg.total_cents) /\ Add(shape)
    \/ \E shape \in Shapes :
          InRange(acc.total_cents - arg.total_cents) /\ Sub(shape)
    \/ \E slot \in Slots : Dollars(slot)
    \/ \E slot \in Slots : Cents(slot)
    \/ \E slot \in Slots : Fmt(slot)

Spec == Init /\ [][Next]_vars

\* SpecPair: the shape of the arithmetic tests and of main.rs: build the left
\* operand, build the right operand, apply one operator, read the result.
Built(slot) == last.op = "new" /\ last.slot = slot

Applied == last.op \in {"add", "sub"}

NextPair ==
    \/ last.op = "init" /\ \E in \in PairInputs : New("acc", in[1], in[2])
    \/ Built("acc") /\ \E in \in PairInputs : New("arg", in[1], in[2])
    \/ Built("arg") /\ \E shape \in Shapes : Add(shape)
    \/ Built("arg") /\ \E shape \in Shapes : Sub(shape)
    \/ Applied /\ Dollars("acc")
    \/ Applied /\ Cents("acc")
    \/ Applied /\ Fmt("acc")

SpecPair == Init /\ [][NextPair]_vars

\* SpecValue: one value built by one constructor call and then read by the
\* accessors, on a wide range of constructor inputs.
NextValue ==
    \/ last.op = "init" /\ \E in \in WideNewInputs : New("arg", in[1], in[2])
    \/ last.op = "init" /\ \E n \in WideFromInputs : From("arg", n)
    \/ Dollars("arg")
    \/ Cents("arg")
    \/ Fmt("arg")

SpecValue == Init /\ [][NextValue]_vars

(***************************************************************************)
(* SpecBig: the operations at the ends of the 64-bit ranges of the         *)
(* arguments of USD::new.  big.fail names the step at which the program    *)
(* stopped; nothing runs after that.                                       *)
(***************************************************************************)
BigDollarInputs ==
    {BigAdd(I64_MIN, BigOf(k)) : k \in 0..MaxBigDelta}
        \cup {BigSub(I64_MAX, BigOf(k)) : k \in 0..MaxBigDelta}
        \cup {BigOf(k) : k \in (0 - MaxBigDelta)..MaxBigDelta}

\* usize::MAX ends in 15 cents: 15 below it the remainder is 0, 16 below it 99.
BigCentInputs ==
    {BigSub(USIZE_MAX, BigOf(k)) : k \in 0..MaxBigDelta}
        \cup {BigSub(USIZE_MAX, BigOf(15 + k)) : k \in 0..MaxBigDelta}
        \cup {BigOf(k) : k \in {0, 99, 100, 275, 399}}

BigNew(slot, d, c) ==
    /\ big.fail = "none"
    /\ LET r == big_new(d, c)
       IN  big' = [big EXCEPT
                     ![slot] = IF r.fail = "none" THEN r.usd ELSE @,
                     !.last = [op |-> "new", slot |-> slot, d |-> d, c |-> c],
                     !.ret = NoRet,
                     !.fail = r.fail]
    /\ UNCHANGED <<acc, arg, last, ret>>

BigAddOp ==
    /\ big.fail = "none"
    /\ big' = [big EXCEPT !.acc = big_add(big.acc, big.arg),
                          !.last = [op |-> "add", lhs |-> big.acc],
                          !.ret = NoRet]
    /\ UNCHANGED <<acc, arg, last, ret>>

BigSubOp ==
    /\ big.fail = "none"
    /\ big' = [big EXCEPT !.acc = big_sub(big.acc, big.arg),
                          !.last = [op |-> "sub", lhs |-> big.acc],
                          !.ret = NoRet]
    /\ UNCHANGED <<acc, arg, last, ret>>

BigDollars(slot) ==
    /\ big.fail = "none"
    /\ big' = [big EXCEPT !.ret = [op |-> "dollars", of |-> big[slot],
                                   val |-> big_dollars(big[slot])]]
    /\ UNCHANGED <<acc, arg, last, ret>>

BigCents(slot) ==
    /\ big.fail = "none"
    /\ big' = [big EXCEPT !.ret = [op |-> "cents", of |-> big[slot],
                                   val |-> big_cents(big[slot])]]
    /\ UNCHANGED <<acc, arg, last, ret>>

BigBuilt(slot) == big.last.op = "new" /\ big.last.slot = slot

NextBig ==
    \/ big.last.op = "init" /\
          \E d \in BigDollarInputs, c \in BigCentInputs : BigNew("acc", d, c)
    \/ BigBuilt("acc") /\
          \E d \in BigDollarInputs, c \in BigCentInputs : BigNew("arg", d, c)
    \/ BigBuilt("arg") /\ BigAddOp
    \/ BigBuilt("arg") /\ BigSubOp
    \/ \E slot \in Slots : BigDollars(slot)
    \/ \E slot \in Slots : BigCents(slot)

SpecBig == Init /\ [][NextBig]_vars

(***************************************************************************)
(* Properties.                                                             *)
(***************************************************************************)
\* The value the last constructor call bound.
built == value(last.slot)

\* sign(x) with sign(0) = +1
SignOf(x) == IF x < 0 THEN -1 ELSE 1

\* The unique r in 0..99 with n - r divisible by 100.
EuclidRem(n) == CHOOSE r \in 0..99 : (n - r) % 100 = 0

\* The quotient of n by 100 truncated toward zero: the q of the same sign as
\* n (or zero) with |q| * 100 <= |n| < (|q| + 1) * 100.
IsTruncQuot(q, n) ==
    /\ abs(q) * 100 <= abs(n)
    /\ abs(n) < (abs(q) + 1) * 100
    /\ (n >= 0 => q >= 0)
    /\ (n <= 0 => q <= 0)

\* C1: the Display text starts with '-' exactly when total_cents < 0.
C1_SignFollowsTotal ==
    ret.op = "fmt" => ((Head(ret.val) = "-") <=> (ret.of.total_cents < 0))

\* C2 as stated: cents() returns the Euclidean remainder of total_cents
\* modulo 100, whatever the sign of total_cents.
C2_CentsIsEuclidean ==
    ret.op = "cents" => ret.val = EuclidRem(ret.of.total_cents)

\* C2 as amended: cents() returns the remainder of |total_cents| modulo 100,
\* the unique r in 0..99 with |total_cents| - r divisible by 100.  With E the
\* Euclidean remainder of total_cents, that is E when total_cents >= 0 or
\* E = 0, and 100 - E otherwise; from(-25573).cents() is 73.
C2_CentsIsRemainderOfMagnitude ==
    ret.op = "cents" =>
        LET n == ret.of.total_cents
            r == ret.val
            E == EuclidRem(n)
        IN  /\ r \in 0..99
            /\ (abs(n) - r) % 100 = 0
            /\ (n >= 0 \/ E = 0) => r = E
            /\ (n < 0 /\ E # 0) => r = 100 - E
            /\ n = -25573 => r = 73

C2_Witness ==
    /\ last.op = "from"
    /\ ret.op = "cents"
    /\ ret.of.total_cents = -25573
    /\ ret.val = 73

\* C3: new(d, c) has total_cents = (d + sign*carry)*100 + sign*remainder with
\* carry = c div 100, remainder = c mod 100, sign = -1 if d < 0 and +1
\* otherwise; new(1,1015) is 11 dollars 15 cents, new(-1,115) is -2 dollars
\* 15 cents, and new(0, c) is never negative.
C3_NewCarriesWithSign ==
    last.op = "new" =>
        LET d == last.d
            c == last.c
            carry == c \div 100
            remainder == c % 100
            sign == SignOf(d)
        IN  /\ built.total_cents = (d + sign * carry) * 100 + sign * remainder
            /\ (d = 1 /\ c = 1015) => dollars(built) = 11 /\ cents(built) = 15
            /\ (d = -1 /\ c = 115) => dollars(built) = -2 /\ cents(built) = 15
            /\ d = 0 => built.total_cents >= 0

C3_Witness ==
    /\ last.op = "new"
    /\ last.d = -1
    /\ last.c = 115
    /\ ret.op = "dollars"
    /\ ret.of = built
    /\ ret.val = -2

\* C4: m = new(d, c) satisfies dollars()*100 + sign(dollars())*cents() =
\* total_cents, with sign(0) = +1, and cents() is in 0..99.
C4_NewReconstructs ==
    last.op = "new" =>
        /\ dollars(built) * 100 + SignOf(dollars(built)) * cents(built)
              = built.total_cents
        /\ cents(built) \in 0..99

C4_Witness ==
    /\ last.op = "new"
    /\ last.d < 0
    /\ last.c % 100 # 0
    /\ last.c > 100
    /\ ret.op = "cents"
    /\ ret.of = built

\* C5: a + b has total_cents a.total_cents + b.total_cents and a - b has
\* a.total_cents - b.total_cents, in each of the four call shapes;
\* new(500,32) + new(31,99) is 532 dollars 31 cents, new(15,95) + new(-22,99)
\* is -7 dollars 4 cents, new(15,29) - new(14,31) = new(0,98).
C5_AddSubExact ==
    /\ last.op = "add" =>
          /\ last.shape \in Shapes
          /\ acc.total_cents = last.lhs.total_cents + arg.total_cents
          /\ (last.lhs = new(500, 32) /\ arg = new(31, 99)) =>
                dollars(acc) = 532 /\ cents(acc) = 31
          /\ (last.lhs = new(15, 95) /\ arg = new(-22, 99)) =>
                dollars(acc) = -7 /\ cents(acc) = 4
    /\ last.op = "sub" =>
          /\ last.shape \in Shapes
          /\ acc.total_cents = last.lhs.total_cents - arg.total_cents
          /\ (last.lhs = new(15, 29) /\ arg = new(14, 31)) => acc = new(0, 98)

C5_Witness ==
    /\ last.op = "add"
    /\ last.shape = "val_ref"
    /\ last.lhs = new(15, 95)
    /\ arg = new(-22, 99)
    /\ ret.op = "dollars"
    /\ ret.val = -7

\* C6: the Display text of new(d, c) is an optional '-' (present iff d < 0),
\* '$', |dollars()| in decimal without leading zeros, '.', and cents() as
\* exactly two digits; with the five literal cases of the display tests.
Chars(str) ==
    CASE str = "$0.00" -> <<"$", "0", ".", "0", "0">>
      [] str = "$15.30" -> <<"$", "1", "5", ".", "3", "0">>
      [] str = "$3705.07" -> <<"$", "3", "7", "0", "5", ".", "0", "7">>
      [] str = "-$300.16" -> <<"-", "$", "3", "0", "0", ".", "1", "6">>
      [] str = "-$10513012.03" ->
            <<"-", "$", "1", "0", "5", "1", "3", "0", "1", "2", ".", "0", "3">>

C6_DisplayText ==
    (last.op = "new" /\ ret.op = "fmt") =>
        LET d == last.d
            c == last.c
            text == ret.val
            sign == IF d < 0 THEN <<"-">> ELSE <<>>
            D == ToDecimal(abs(dollars(built)))
            CC == <<DigitChars[(cents(built) \div 10) + 1],
                    DigitChars[(cents(built) % 10) + 1]>>
        IN  /\ text = sign \o <<"$">> \o D \o <<".">> \o CC
            /\ (Head(D) = "0") => (Len(D) = 1 /\ dollars(built) = 0)
            /\ text[Len(text) - 2] = "."
            /\ (d = 0 /\ c = 0) => text = Chars("$0.00")
            /\ (d = 15 /\ c = 30) => text = Chars("$15.30")
            /\ (d = 3705 /\ c = 7) => text = Chars("$3705.07")
            /\ (d = -300 /\ c = 16) => text = Chars("-$300.16")
            /\ (d = -10513012 /\ c = 3) => text = Chars("-$10513012.03")

C6_Witness ==
    /\ last.op = "new"
    /\ last.d = -10513012
    /\ last.c = 3
    /\ ret.op = "fmt"
    /\ ret.val = Chars("-$10513012.03")

\* C7: for d at the ends of the i64 range and c at the end of the usize
\* range, new(d, c) stops at no conversion and at no i64 overflow and has
\* dollars() = d + sign*(c div 100) and cents() = c mod 100, beyond the
\* 64-bit range where it must: new(i64::MAX, 275) has dollars i64::MAX + 2
\* and cents 75; add and sub never stop and are exact.
I64_MAX_plus_2 == [neg |-> FALSE, mag |-> <<9, 58, 77, 54, 68, 3, 72, 33, 22, 9>>]

Twice_I64_MAX == [neg |-> FALSE, mag |-> <<14, 16, 55, 9, 37, 7, 44, 67, 44, 18>>]

C7_NoAbortAtRangeEnds ==
    /\ big.fail = "none"
    /\ big.last.op = "new" =>
          LET d == big.last.d
              c == big.last.c
              m == big[big.last.slot]
              carry == Big(FALSE, Rest(c.mag))
          IN  /\ big_dollars(m) = BigAdd(d, IF d.neg THEN BigNeg(carry) ELSE carry)
              /\ big_cents(m) = Limb(c.mag)
              /\ (d = I64_MAX /\ c = BigOf(275)) =>
                    big_dollars(m) = I64_MAX_plus_2 /\ big_cents(m) = 75
    /\ big.last.op = "add" =>
          /\ big.acc.total_cents
                = BigAdd(big.last.lhs.total_cents, big.arg.total_cents)
          /\ (big.last.lhs = big.arg /\ big.arg.total_cents = BigTimes100(I64_MAX))
                => big_dollars(big.acc) = Twice_I64_MAX
    /\ big.last.op = "sub" =>
          big.acc.total_cents
              = BigSub(big.last.lhs.total_cents, big.arg.total_cents)

C7_Witness ==
    /\ big.last.op = "new"
    /\ big.last.d = I64_MAX
    /\ big.last.c = BigOf(275)
    /\ big.ret.op = "dollars"
    /\ big.ret.of = big[big.last.slot]
    /\ big.ret.val = I64_MAX_plus_2
    /\ ~InI64(big.ret.val)

\* C8: a - b equals a + n where n has total_cents = -b.total_cents, and
\* a - a equals new(0,0), with total_cents, dollars() and cents() all 0.
C8_SubIsAddOfNegation ==
    last.op = "sub" =>
        LET a == last.lhs
            b == arg
            n == from(0 - b.total_cents)
        IN  /\ acc = add(last.shape, a, n)
            /\ a = b => /\ acc = new(0, 0)
                        /\ acc.total_cents = 0
                        /\ dollars(acc) = 0
                        /\ cents(acc) = 0

C8_Witness ==
    /\ last.op = "sub"
    /\ last.lhs = arg
    /\ arg.total_cents < 0
    /\ acc.total_cents = 0
    /\ ret.op = "cents"
    /\ ret.of = acc

\* C9 as stated: new(-8, 96) yields dollars() = -9 and cents() = 96.
C9_MinusEightBecomesMinusNine ==
    (last.op = "new" /\ last.d = -8 /\ last.c = 96) =>
        dollars(built) = -9 /\ cents(built) = 96

\* C9 as amended: new(-8, 96) yields dollars() = -8 and cents() = 96, the
\* amount -896 cents: the cents move the amount away from zero without
\* carrying into the dollars.
C9_MinusEightStaysMinusEight ==
    (last.op = "new" /\ last.d = -8 /\ last.c = 96) =>
        /\ dollars(built) = -8
        /\ cents(built) = 96
        /\ built.total_cents = -896

C9_Witness ==
    /\ last.op = "new"
    /\ last.d = -8
    /\ last.c = 96
    /\ ret.op = "dollars"
    /\ ret.of = built
    /\ ret.val = -8

\* C10: for every value reached by new, from and add/sub, cents() is
\* |total_cents| mod 100, dollars() is the quotient of total_cents by 100
\* truncated toward zero, and |total_cents| = |dollars()|*100 + cents().
C10_AccessorsDecompose ==
    /\ \A v \in {acc, arg} :
          LET n == v.total_cents
          IN  /\ cents(v) = abs(n) % 100
              /\ cents(v) \in 0..99
              /\ IsTruncQuot(dollars(v), n)
              /\ abs(n) = abs(dollars(v)) * 100 + cents(v)
    /\ ret.op = "dollars" => IsTruncQuot(ret.val, ret.of.total_cents)
    /\ ret.op = "cents" => ret.val = abs(ret.of.total_cents) % 100

C10_Witness ==
    /\ last.op = "sub"
    /\ last.lhs.total_cents > 0
    /\ acc.total_cents < 0
    /\ acc.total_cents > -100
    /\ ret.op = "dollars"
    /\ ret.of = acc
    /\ ret.val = 0

====
